---- MODULE Spec2Model ----
(***************************************************************************)
(* The drive registry of the filesystem manager: configDrive, removeDrive  *)
(* and getDriveConfig over the in-memory list `drives`, the persisted      *)
(* document /drives.json and the named lock 'filesystem:drives'.           *)
(*                                                                         *)
(* Every `await` of the source is a suspension point, so every action     *)
(* below is the code that runs between two awaits of one call.            *)
(***************************************************************************)
EXTENDS Naturals, Sequences, FiniteSets, TLC

\* ------------------------------------------------------------ bounds

\* Number of configDrive/removeDrive calls made in one behaviour of two
\* concurrent callers, and in one behaviour of a single caller.
MaxCalls == 2
MaxSeqCalls == 3

\* Calls the reconcilers (ensureDir, ensureMount, ensureUnmount) may make.
MaxFsCalls == 2

\* The largest numeric suffix of a name that may exist in the directory
\* getAvailableName searches.
MaxSuffix == 4

\* setup() calls and process restarts.
MaxSetups == 3

\* Lists a caller may hold from listDrives().
MaxLists == 1

\* ------------------------------------------------------------ values

\* The concurrent callers.
Procs == {"c1", "c2"}

\* Drive keys the resolver can produce.  (A caller may name any key in forkOf;
\* the callers here name "c", a drive whose URL is never configured.)
Keys == {"a", "b"}

\* JavaScript's undefined, and a property that is not there at all.
Undefined == "undefined"
Absent == "absent"

\* The result of a URL that does not resolve (fromURLToKey throws).
Unresolvable == "unresolvable"

\* URLs handed to the manager: one per drive, and one that does not resolve.
Urls == {"hyper://a", "hyper://b", "hyper://nowhere"}

\* hyper.drives.fromURLToKey(url, true): the canonical key of a URL.
fromURLToKey(u) ==
  CASE u = "hyper://a" -> "a"
    [] u = "hyper://b" -> "b"
    [] OTHER -> Unresolvable

\* drive.writable: drive a is the user's own, b is somebody else's.
writable == [k \in Keys |-> k = "a"]

\* A DriveConfig without forkOf, and the forkOf object the manifest branch
\* creates when the caller gave none.
NoFork == [key |-> Absent, label |-> Absent]
EmptyFork == [key |-> Undefined, label |-> Undefined]

\* The forkOf option of configDrive: not given, given but no object (null,
\* false), or an object {key, label} naming drive c, whose label may be missing.
ForkOfArgs ==
  {[kind |-> "undefined", key |-> Undefined, label |-> Undefined],
   [kind |-> "null", key |-> Undefined, label |-> Undefined]}
  \cup {[kind |-> "object", key |-> k, label |-> l] : k \in {"c"}, l \in {Undefined, "dev"}}

NoArg == [kind |-> "undefined", key |-> Undefined, label |-> Undefined]

\* What `await drive.pda.readManifest().catch(_ => {})` evaluates to: the
\* manifest, or undefined when reading fails (the arrow function's body is an
\* empty block, which returns undefined).
ManifestResults ==
  {[readable |-> FALSE, forkOf |-> Undefined],
   [readable |-> TRUE, forkOf |-> Undefined]}
  \cup {[readable |-> TRUE, forkOf |-> u] : u \in Urls}

NoManifest == [readable |-> FALSE, forkOf |-> Undefined]

\* What the prompt modal resolves to after `.catch(e => false)`.
PromptResults == {"declined", "empty", "lbl"}

\* The lock names of lib/lock.
LockNames == {"filesystem:drives"} \cup Urls


VARIABLES
  drives,        \* the in-memory registry (module global `drives`)
  doc,           \* the content of /drives.json in the root drive
  network,       \* per drive, the last configureNetwork setting
  lockAcquired,  \* per lock name, whether the lock is taken
  lockWaiters,   \* per lock name, the queue of callers waiting for it
  granted,       \* callers whose lock promise is resolved and not yet resumed
  pc,            \* per caller, the await it is suspended at
  op,            \* per caller, the function it is in
  url,           \* per caller, the url argument
  forkOf,        \* per caller, the forkOf option
  key,           \* per caller, the local `key`
  driveIndex,    \* per caller, removeDrive's local `driveIndex` (1-based, 0 = -1)
  driveCfg,      \* per caller, configDrive's local `driveCfg`
  manifest,      \* per caller, configDrive's local `manifest`
  pending,       \* per caller, the text handed to writeFile
  events,        \* per caller, the collaborator calls this call has made
  preDrives,     \* per caller, `drives` when the call got the lock
  preDoc,        \* per caller, the document when the call got the lock
  preNetwork,    \* per caller, the network settings when the call got the lock
  sawAdded,      \* per caller, the keys that calls completing during this call
                 \* have added (and that no completed removeDrive took out since)
  settled,       \* the call whose promise settled in the last step, if any
  budget         \* calls the callers may still make

VARIABLES
  tree,          \* the root drive's tree: what is at each path
  rpc,           \* per reconciler caller, the await it is suspended at
  rop,           \* per reconciler caller, the function it is in
  rpath,         \* per reconciler caller, the path argument
  rurl,          \* per reconciler caller, the url argument
  rst,           \* per reconciler caller, the local `st`
  rkey,          \* per reconciler caller, the local `key`
  issued,        \* per reconciler caller, the mkdir/mount/unmount calls issued
  rbefore,       \* per reconciler caller, the tree when the call started
  fsSettled,     \* the reconciler call that ended in the last step, if any
  lastCall,      \* the reconciler call that ended before that one
  rwith,         \* per reconciler caller, the calls that overlapped with its call
  fsBudget       \* calls the reconciler callers may still make

VARIABLES
  names,         \* the names that exist in the directory getAvailableName searches
  gpc,           \* getAvailableName: the await it is suspended at
  gargs,         \* getAvailableName: ext and joiningChar
  gi,            \* getAvailableName: the loop counter i
  gresult        \* getAvailableName: what the call returned or threw

VARIABLES
  profileUrl,        \* the url column of the profile record (profiles, id = 0)
  rootDrives,        \* the root drives created so far
  bookmarksAdded,    \* how often each default bookmark has been added
  spc,               \* setup(): the await it is suspended at
  browsingProfile,   \* the module global: the url of the loaded profile record
  isInitialCreation, \* setup(): the local flag
  docText,           \* what readFile('/drives.json') gives
  drivesIsArray,     \* whether the module global `drives` holds an array
  setupSettled,      \* how the last setup() call ended
  setupLog,          \* what the setup() call in progress has done
  setupBudget        \* setup() calls and restarts still to come

VARIABLES
  listed,        \* the lists returned by listDrives(), as the caller holds them
  returned       \* the content those lists had when they were returned

fsVars == <<tree, rpc, rop, rpath, rurl, rst, rkey, issued, rbefore, fsSettled, lastCall,
            rwith, fsBudget>>
nameVars == <<names, gpc, gargs, gi, gresult>>
setupVars == <<profileUrl, rootDrives, bookmarksAdded, spc, browsingProfile,
               isInitialCreation, docText, drivesIsArray, setupSettled, setupLog,
               setupBudget>>
listVars == <<listed, returned>>
others == <<fsVars, nameVars, setupVars>>

registry == <<drives, doc, network>>
locks == <<lockAcquired, lockWaiters, granted>>
frame == <<op, url, forkOf, key, driveIndex, driveCfg, manifest, pending, events>>
history == <<preDrives, preDoc, preNetwork, sawAdded>>
calls == <<drives, doc, network, lockAcquired, lockWaiters, granted, pc, op, url,
           forkOf, key, driveIndex, driveCfg, manifest, pending, events,
           preDrives, preDoc, preNetwork, sawAdded, settled, budget>>
vars == <<calls, others, listVars>>

\* No call settled in the last step.
NoCall ==
  [who |-> "none", op |-> "none", key |-> Undefined, result |-> "none",
   events |-> {}, sawAdded |-> {}]

\* The locals of a caller that is in no call.
NoDriveCfg == [key |-> Undefined, forkOf |-> NoFork]

\* ------------------------------------------------------------ pure helpers

\* drives.find(d => d.key === key) / findIndex: the first index, 0 when none.
findIndex(ds, k) ==
  IF \E i \in 1..Len(ds) : ds[i].key = k
  THEN CHOOSE i \in 1..Len(ds) : ds[i].key = k /\ \A j \in 1..(i - 1) : ds[j].key # k
  ELSE 0

\* getDriveConfig(key): listDrives().find(d => d.key === key); 0 is undefined.
getDriveConfig(k) == findIndex(drives, k)

\* drives.push(entry)
push(ds, e) == Append(ds, e)

\* drives.splice(driveIndex, 1)
splice(ds, i) == [j \in 1..(Len(ds) - 1) |-> IF j < i THEN ds[j] ELSE ds[j + 1]]

\* JSON.stringify({drives}, null, 2): a property whose value is undefined is
\* left out of the text.
stringifyFork(f) ==
  IF f = NoFork THEN NoFork
  ELSE [key |-> IF f.key = Undefined THEN Absent ELSE f.key,
        label |-> IF f.label = Undefined THEN Absent ELSE f.label]

stringify(ds) == [i \in 1..Len(ds) |-> [key |-> ds[i].key, forkOf |-> stringifyFork(ds[i].forkOf)]]

\* The keys listed in a document.
docKeys(d) == {d[i].key : i \in 1..Len(d)}

\* The new entry: {key}, with the caller's forkOf when it is an object.
newDriveCfg(k, f) ==
  [key |-> k,
   forkOf |-> IF f.kind = "object" THEN [key |-> f.key, label |-> f.label] ELSE NoFork]

\* manifest.forkOf && typeof manifest.forkOf === 'string'
declaresFork(m) == m.forkOf # Undefined

\* The existing-entry branch: set forkOf, delete it, or leave it.
updateForkOf(ds, i, f) ==
  IF f.kind = "undefined" THEN ds
  ELSE IF f.kind = "object"
       THEN [ds EXCEPT ![i].forkOf = [key |-> f.key, label |-> f.label]]
       ELSE [ds EXCEPT ![i].forkOf = NoFork]

\* The parent is pushed as a bare {key} when no entry has its key.
ensureParent(ds, cfg) ==
  IF findIndex(ds, cfg.forkOf.key) = 0
  THEN push(ds, [key |-> cfg.forkOf.key, forkOf |-> NoFork])
  ELSE ds

\* drive.session.drive.configureNetwork({announce, lookup}) on a drive that is
\* not writable.
configureNetwork(net, k, announce) ==
  IF writable[k] THEN net
  ELSE [net EXCEPT ![k] = [announce |-> announce, lookup |-> TRUE]]

\* No drive is announced before the manager configures it.
InitialNetwork == [k \in Keys |-> [announce |-> FALSE, lookup |-> TRUE]]

\* Whether the call reaches configureNetwork: `if (!drive.writable)`.
seedEvents(k) == IF writable[k] THEN {} ELSE {"configureNetwork"}

\* A lock per URL instead of one lock for the registry.
lockName_perUrl(u) == u

\* The name the lock is taken under.
lockName(u) == "filesystem:drives"

\* ------------------------------------------------------------ the lock

\* lock(name): take the lock when it is free, queue up otherwise.
lock(p, name) ==
  IF lockAcquired[name]
  THEN /\ lockWaiters' = [lockWaiters EXCEPT ![name] = Append(@, p)]
       /\ UNCHANGED <<lockAcquired, granted>>
  ELSE /\ lockAcquired' = [lockAcquired EXCEPT ![name] = TRUE]
       /\ granted' = granted \cup {p}
       /\ UNCHANGED lockWaiters

\* release(): hand the lock to the first waiter, or free it.
release(name) ==
  IF lockWaiters[name] # <<>>
  THEN /\ granted' = granted \cup {Head(lockWaiters[name])}
       /\ lockWaiters' = [lockWaiters EXCEPT ![name] = Tail(@)]
       /\ UNCHANGED lockAcquired
  ELSE /\ lockAcquired' = [lockAcquired EXCEPT ![name] = FALSE]
       /\ UNCHANGED <<lockWaiters, granted>>



\* ------------------------------------------------------------ the root drive's tree

\* The callers of the reconcilers.
Reconcilers == {"r1", "r2"}

\* The paths reconciled: PATHS.BOOKMARKS and a mount point.
Paths == {"/bookmarks", "/mnt"}

\* What a path holds; stat() gives null for NoEntry and the entry otherwise
\* (a mount has st.mount.key).
NoEntry == [kind |-> "absent", key |-> Undefined]
Directory == [kind |-> "dir", key |-> Undefined]
File == [kind |-> "file", key |-> Undefined]
Mount(k) == [kind |-> "mount", key |-> k]
Entries == {NoEntry, Directory, File} \cup {Mount(k) : k \in Keys}
EmptyTree == [pa \in Paths |-> NoEntry]

\* stat(path): rootDrive.pda.stat(path), null when it throws.
stat(pa) == tree[pa]

\* One rootDrive.pda call, as the reconciler issues it.
pdaCall(name, pa, k) == [call |-> name, path |-> pa, key |-> k]

\* The arguments that identify a reconciler call.
signature(o, pa, u) == <<o, pa, u>>

NoFsCall ==
  [who |-> "none", op |-> "none", path |-> "none", url |-> "none", issued |-> <<>>,
   result |-> "none", before |-> EmptyTree, with |-> {},
   prev |-> [op |-> "none", path |-> "none", url |-> "none", with |-> {},
             result |-> "none", before |-> EmptyTree, after |-> EmptyTree]]

\* The reconcilers' variables while no reconciler has been called.
FsIdle ==
  /\ rpc = [p \in Reconcilers |-> "off"]
  /\ rop = [p \in Reconcilers |-> "none"]
  /\ rpath = [p \in Reconcilers |-> "none"]
  /\ rurl = [p \in Reconcilers |-> "none"]
  /\ rst = [p \in Reconcilers |-> NoEntry]
  /\ rkey = [p \in Reconcilers |-> Undefined]
  /\ issued = [p \in Reconcilers |-> <<>>]
  /\ rbefore = [p \in Reconcilers |-> EmptyTree]
  /\ rwith = [p \in Reconcilers |-> {}]
  /\ fsSettled = NoFsCall
  /\ lastCall = NoFsCall.prev
  /\ fsBudget = 0

\* ------------------------------------------------------------ names

\* A name in the searched directory: basename, then joiningChar and a number
\* (or neither), then '.ext' (or not).
Name(j, n, e) == [join |-> j, n |-> n, ext |-> e]
Exts == {Absent, "txt"}
AllNames ==
  {Name(Absent, 0, e) : e \in Exts}
  \cup {Name("-", n, e) : n \in 1..MaxSuffix, e \in Exts}
  \cup {Name("_", 2, e) : e \in Exts}

NoNameArgs == [ext |-> Undefined, joiningChar |-> Undefined]

\* getAvailableName's variables while it has not been called.
NamesIdle ==
  /\ names = {}
  /\ gpc = "off"
  /\ gargs = NoNameArgs
  /\ gi = 0
  /\ gresult = [kind |-> "none", name |-> Name(Absent, 0, Absent)]

\* ------------------------------------------------------------ setup and listDrives

\* The profile record has no url yet.
NoUrl == 0

\* The url of the n-th root drive created.
RootUrl(n) == n

\* The two default bookmarks of setup().
DefaultBookmarks == {"docs", "reddit"}

\* What readFile('/drives.json') and JSON.parse make of the document.
DocTexts == {"missing", "unreadable", "invalid", "nolist", "list"}

NoSetup == [result |-> "none", read |-> FALSE, urlBefore |-> NoUrl]
NoSetupLog == [read |-> FALSE, urlBefore |-> NoUrl]

\* setup()'s variables in a process whose setup has loaded a well-formed
\* document and is not called again.
SetupIdle ==
  /\ profileUrl = RootUrl(1)
  /\ rootDrives = 1
  /\ bookmarksAdded = [b \in DefaultBookmarks |-> 1]
  /\ spc = "off"
  /\ browsingProfile = RootUrl(1)
  /\ isInitialCreation = FALSE
  /\ docText = "list"
  /\ drivesIsArray = TRUE
  /\ setupSettled = NoSetup
  /\ setupLog = NoSetupLog
  /\ setupBudget = 0

\* No list has been taken.
ListIdle ==
  /\ listed = <<>>
  /\ returned = <<>>

\* A list a caller holds: its elements are the entry objects themselves
\* (`drives.slice()` copies the array, not the objects); `at` is where the
\* object is in `drives` now (0 when it is in `drives` no longer, or never was).
held(cfg, i) == [cfg |-> cfg, at |-> i]

\* The held lists after the entry objects of `drives` were assigned to in
\* place and `drives` became ds.
assignedInPlace(ls, ds) ==
  [s \in 1..Len(ls) |->
     [j \in 1..Len(ls[s]) |->
        IF ls[s][j].at > 0 THEN held(ds[ls[s][j].at], ls[s][j].at) ELSE ls[s][j]]]

\* The held lists after drives.splice(i, 1): the objects stay as they are.
splicedOut(ls, i) ==
  [s \in 1..Len(ls) |->
     [j \in 1..Len(ls[s]) |->
        IF ls[s][j].at = i THEN held(ls[s][j].cfg, 0)
        ELSE IF ls[s][j].at > i THEN held(ls[s][j].cfg, ls[s][j].at - 1)
        ELSE ls[s][j]]]

\* ------------------------------------------------------------ initial state

\* Two callers, an empty registry, no document content, nothing announced.
Init ==
  /\ drives = <<>>
  /\ doc = <<>>
  /\ network = InitialNetwork
  /\ lockAcquired = [n \in LockNames |-> FALSE]
  /\ lockWaiters = [n \in LockNames |-> <<>>]
  /\ granted = {}
  /\ pc = [p \in Procs |-> "idle"]
  /\ op = [p \in Procs |-> "none"]
  /\ url = [p \in Procs |-> "none"]
  /\ forkOf = [p \in Procs |-> NoArg]
  /\ key = [p \in Procs |-> Undefined]
  /\ driveIndex = [p \in Procs |-> 0]
  /\ driveCfg = [p \in Procs |-> NoDriveCfg]
  /\ manifest = [p \in Procs |-> NoManifest]
  /\ pending = [p \in Procs |-> <<>>]
  /\ events = [p \in Procs |-> {}]
  /\ preDrives = [p \in Procs |-> <<>>]
  /\ preDoc = [p \in Procs |-> <<>>]
  /\ preNetwork = [p \in Procs |-> InitialNetwork]
  /\ sawAdded = [p \in Procs |-> {}]
  /\ settled = NoCall
  /\ budget = MaxCalls
  /\ tree = EmptyTree /\ FsIdle /\ NamesIdle /\ SetupIdle /\ ListIdle

\* ------------------------------------------------------------ call and return

\* What the settling of caller p's call does to the other callers' record
\* of added keys.
noteSettled(p, res, k, evs) ==
  [q \in Procs |->
     IF q = p \/ pc[q] \in {"idle", "off"} THEN {}
     ELSE IF op[p] = "configDrive" /\ res = "ok" /\ "push" \in evs THEN sawAdded[q] \cup {k}
     ELSE IF op[p] = "removeDrive" /\ res = "ok" THEN sawAdded[q] \ {k}
     ELSE sawAdded[q]]

\* The function is left: its locals are gone and its promise settles with
\* `res`; k is the resolved key and evs the collaborator calls made.
leave(p, res, k, evs) ==
  /\ settled' = [who |-> p, op |-> op[p], key |-> k, result |-> res, events |-> evs,
                 sawAdded |-> sawAdded[p]]
  /\ sawAdded' = noteSettled(p, res, k, evs)
  /\ pc' = [pc EXCEPT ![p] = "idle"]
  /\ op' = [op EXCEPT ![p] = "none"]
  /\ url' = [url EXCEPT ![p] = "none"]
  /\ forkOf' = [forkOf EXCEPT ![p] = NoArg]
  /\ key' = [key EXCEPT ![p] = Undefined]
  /\ driveIndex' = [driveIndex EXCEPT ![p] = 0]
  /\ driveCfg' = [driveCfg EXCEPT ![p] = NoDriveCfg]
  /\ manifest' = [manifest EXCEPT ![p] = NoManifest]
  /\ pending' = [pending EXCEPT ![p] = <<>>]
  /\ events' = [events EXCEPT ![p] = {}]
  /\ preDrives' = [preDrives EXCEPT ![p] = <<>>]
  /\ preDoc' = [preDoc EXCEPT ![p] = <<>>]
  /\ preNetwork' = [preNetwork EXCEPT ![p] = InitialNetwork]

\* A call without try/finally: the `return` of the declined prompt leaves
\* the function without releasing.
finally_leakOnAbort(p, res, k, evs) ==
  /\ IF res = "abort" THEN UNCHANGED locks ELSE release(lockName(url[p]))
  /\ leave(p, res, k, evs)

\* The call's `finally { release() }`, reached by completion, return or throw.
finally(p, res, k, evs) ==
  /\ release(lockName(url[p]))
  /\ leave(p, res, k, evs)

\* rootDrive.pda.writeFile('/drives.json', JSON.stringify({drives}, null, 2)):
\* the text is built from the list as it is when writeFile is called.
writeFile(p, ds, evs) ==
  /\ pending' = [pending EXCEPT ![p] = stringify(ds)]
  /\ events' = [events EXCEPT ![p] = @ \cup evs \cup {"write"}]
  /\ pc' = [pc EXCEPT ![p] = "write"]

\* configDrive(url, {forkOf}) up to `await lock('filesystem:drives')`.
configDrive_call(p, u, f) ==
  /\ pc[p] = "idle"
  /\ budget > 0
  /\ budget' = budget - 1
  /\ op' = [op EXCEPT ![p] = "configDrive"]
  /\ url' = [url EXCEPT ![p] = u]
  /\ forkOf' = [forkOf EXCEPT ![p] = f]
  /\ pc' = [pc EXCEPT ![p] = "lock"]
  /\ lock(p, lockName(u))
  /\ settled' = NoCall
  /\ UNCHANGED <<registry, key, driveIndex, driveCfg, manifest, pending, events, history>>
  /\ UNCHANGED <<others, listVars>>

\* removeDrive(url) up to `await lock('filesystem:drives')`.
removeDrive_call(p, u) ==
  /\ pc[p] = "idle"
  /\ budget > 0
  /\ budget' = budget - 1
  /\ op' = [op EXCEPT ![p] = "removeDrive"]
  /\ url' = [url EXCEPT ![p] = u]
  /\ pc' = [pc EXCEPT ![p] = "lock"]
  /\ lock(p, lockName(u))
  /\ settled' = NoCall
  /\ UNCHANGED <<registry, forkOf, key, driveIndex, driveCfg, manifest, pending, events,
                 history>>
  /\ UNCHANGED <<others, listVars>>

\* The lock promise is resolved: the call enters its try block and awaits
\* fromURLToKey(url).
lock_resume(p) ==
  /\ pc[p] = "lock"
  /\ p \in granted
  /\ granted' = granted \ {p}
  /\ pc' = [pc EXCEPT ![p] = "resolve"]
  /\ preDrives' = [preDrives EXCEPT ![p] = drives]
  /\ preDoc' = [preDoc EXCEPT ![p] = doc]
  /\ preNetwork' = [preNetwork EXCEPT ![p] = network]
  /\ settled' = NoCall
  /\ UNCHANGED <<registry, lockAcquired, lockWaiters, frame, sawAdded, budget>>
  /\ UNCHANGED <<others, listVars>>

\* ------------------------------------------------------------ configDrive

\* `key = await fromURLToKey(url)` fails: the call throws.
configDrive_resolveFails(p) ==
  /\ pc[p] = "resolve" /\ op[p] = "configDrive"
  /\ fromURLToKey(url[p]) = Unresolvable
  /\ finally(p, "error", Undefined, events[p])
  /\ UNCHANGED <<registry, budget>>
  /\ UNCHANGED <<others, listVars>>

\* The key is resolved and no entry has it: await getOrLoadDrive(url).
configDrive_resolveNew(p) ==
  /\ pc[p] = "resolve" /\ op[p] = "configDrive"
  /\ fromURLToKey(url[p]) # Unresolvable
  /\ findIndex(drives, fromURLToKey(url[p])) = 0
  /\ key' = [key EXCEPT ![p] = fromURLToKey(url[p])]
  /\ pc' = [pc EXCEPT ![p] = "load"]
  /\ settled' = NoCall
  /\ UNCHANGED <<registry, locks, op, url, forkOf, driveIndex, driveCfg, manifest,
                 pending, events, history, budget>>
  /\ UNCHANGED <<others, listVars>>

\* The key is resolved and an entry has it: its forkOf is set, deleted or
\* left, and the document is written.
configDrive_resolveExisting(p) ==
  /\ pc[p] = "resolve" /\ op[p] = "configDrive"
  /\ fromURLToKey(url[p]) # Unresolvable
  /\ findIndex(drives, fromURLToKey(url[p])) # 0
  /\ key' = [key EXCEPT ![p] = fromURLToKey(url[p])]
  /\ drives' = updateForkOf(drives, findIndex(drives, fromURLToKey(url[p])), forkOf[p])
  /\ driveCfg' = [driveCfg EXCEPT ![p] = drives'[findIndex(drives, fromURLToKey(url[p]))]]
  /\ writeFile(p, drives', {})
  /\ settled' = NoCall
  /\ UNCHANGED <<doc, network, locks, op, url, forkOf, driveIndex, manifest, history,
                 budget>>
  /\ listed' = assignedInPlace(listed, drives')
  /\ UNCHANGED <<others, returned>>

\* `await getOrLoadDrive(url)` fails: the call throws.
configDrive_loadFails(p) ==
  /\ pc[p] = "load" /\ op[p] = "configDrive"
  /\ finally(p, "error", key[p], events[p])
  /\ UNCHANGED <<registry, budget>>
  /\ UNCHANGED <<others, listVars>>

\* The drive is loaded: await readManifest().
configDrive_load(p) ==
  /\ pc[p] = "load" /\ op[p] = "configDrive"
  /\ pc' = [pc EXCEPT ![p] = "manifest"]
  /\ settled' = NoCall
  /\ UNCHANGED <<registry, locks, frame, history, budget>>
  /\ UNCHANGED <<others, listVars>>

\* readManifest() failed, so `manifest` is undefined: the entry is built, the
\* drive is seeded, and `manifest.forkOf` throws a TypeError.
configDrive_manifestUnreadable(p) ==
  /\ pc[p] = "manifest"
  /\ \E m \in ManifestResults : ~m.readable
  /\ network' = configureNetwork(network, key[p], TRUE)
  /\ finally(p, "error", key[p], events[p] \cup seedEvents(key[p]) \cup {"readManifestFailed"})
  /\ UNCHANGED <<drives, doc, budget>>
  /\ UNCHANGED <<others, listVars>>

\* The manifest declares no fork parent: the entry is pushed and the document
\* is written.
configDrive_manifestPlain(p) ==
  /\ pc[p] = "manifest"
  /\ \E m \in ManifestResults :
       /\ m.readable /\ ~declaresFork(m)
       /\ manifest' = [manifest EXCEPT ![p] = m]
  /\ driveCfg' = [driveCfg EXCEPT ![p] = newDriveCfg(key[p], forkOf[p])]
  /\ network' = configureNetwork(network, key[p], TRUE)
  /\ drives' = push(drives, driveCfg'[p])
  /\ writeFile(p, drives', seedEvents(key[p]) \cup {"push"})
  /\ settled' = NoCall
  /\ UNCHANGED <<doc, locks, op, url, forkOf, key, driveIndex, history, budget>>
  /\ UNCHANGED <<others, listVars>>

\* The manifest declares a fork parent: forkOf is created when the caller
\* gave none, and the call awaits fromURLToKey(manifest.forkOf).
configDrive_manifestFork(p) ==
  /\ pc[p] = "manifest"
  /\ \E m \in ManifestResults :
       /\ m.readable /\ declaresFork(m)
       /\ manifest' = [manifest EXCEPT ![p] = m]
  /\ driveCfg' = [driveCfg EXCEPT ![p] =
       IF newDriveCfg(key[p], forkOf[p]).forkOf = NoFork
       THEN [key |-> key[p], forkOf |-> EmptyFork]
       ELSE newDriveCfg(key[p], forkOf[p])]
  /\ network' = configureNetwork(network, key[p], TRUE)
  /\ events' = [events EXCEPT ![p] = @ \cup seedEvents(key[p])]
  /\ pc' = [pc EXCEPT ![p] = "parentKey"]
  /\ settled' = NoCall
  /\ UNCHANGED <<drives, doc, locks, op, url, forkOf, key, driveIndex, pending,
                 history, budget>>
  /\ UNCHANGED <<others, listVars>>

\* Lines 183-189: the parent is saved when missing, then the entry is pushed.
registerFork(ds, cfg) == push(ensureParent(ds, cfg), cfg)

\* The caller's forkOf.key is kept when there is one.
withParentKey_keepCaller(cfg, pk) ==
  IF cfg.forkOf.key # Undefined THEN cfg ELSE [cfg EXCEPT !.forkOf.key = pk]

\* driveCfg.forkOf.key = the resolved parent key.
withParentKey(cfg, pk) == [cfg EXCEPT !.forkOf.key = pk]

\* `await fromURLToKey(manifest.forkOf)` fails: the call throws.
configDrive_parentKeyFails(p) ==
  /\ pc[p] = "parentKey"
  /\ fromURLToKey(manifest[p].forkOf) = Unresolvable
  /\ finally(p, "error", key[p], events[p])
  /\ UNCHANGED <<registry, budget>>
  /\ UNCHANGED <<others, listVars>>

\* The parent key is resolved and a label is there: no prompt; the parent is
\* saved, the entry is pushed and the document is written.
configDrive_parentKeyLabelled(p) ==
  /\ pc[p] = "parentKey"
  /\ fromURLToKey(manifest[p].forkOf) # Unresolvable
  /\ driveCfg[p].forkOf.label # Undefined
  /\ driveCfg' = [driveCfg EXCEPT ![p] = withParentKey(@, fromURLToKey(manifest[p].forkOf))]
  /\ drives' = registerFork(drives, driveCfg'[p])
  /\ writeFile(p, drives', {"push"})
  /\ settled' = NoCall
  /\ UNCHANGED <<doc, network, locks, op, url, forkOf, key, driveIndex, manifest,
                 history, budget>>
  /\ UNCHANGED <<others, listVars>>

\* The parent is saved before the prompt is answered.
configDrive_parentKeyPrompt_savesParent(p) ==
  /\ pc[p] = "parentKey"
  /\ fromURLToKey(manifest[p].forkOf) # Unresolvable
  /\ driveCfg[p].forkOf.label = Undefined
  /\ driveCfg' = [driveCfg EXCEPT ![p] = withParentKey(@, fromURLToKey(manifest[p].forkOf))]
  /\ drives' = ensureParent(drives, driveCfg'[p])
  /\ events' = [events EXCEPT ![p] = @ \cup {"prompt"}]
  /\ pc' = [pc EXCEPT ![p] = "prompt"]
  /\ settled' = NoCall
  /\ UNCHANGED <<doc, network, locks, op, url, forkOf, key, driveIndex, manifest, pending,
                 history, budget>>
  /\ UNCHANGED <<others, listVars>>

\* The parent key is resolved and there is no label: the prompt is opened on
\* the focused window and the call awaits it.
configDrive_parentKeyPrompt(p) ==
  /\ pc[p] = "parentKey"
  /\ fromURLToKey(manifest[p].forkOf) # Unresolvable
  /\ driveCfg[p].forkOf.label = Undefined
  /\ driveCfg' = [driveCfg EXCEPT ![p] = withParentKey(@, fromURLToKey(manifest[p].forkOf))]
  /\ events' = [events EXCEPT ![p] = @ \cup {"prompt"}]
  /\ pc' = [pc EXCEPT ![p] = "prompt"]
  /\ settled' = NoCall
  /\ UNCHANGED <<registry, locks, op, url, forkOf, key, driveIndex, manifest, pending,
                 history, budget>>
  /\ UNCHANGED <<others, listVars>>

\* No window is focused: BrowserWindow.getFocusedWindow() is null and
\* `.webContents` throws a TypeError.
configDrive_parentKeyNoWindow(p) ==
  /\ pc[p] = "parentKey"
  /\ fromURLToKey(manifest[p].forkOf) # Unresolvable
  /\ driveCfg[p].forkOf.label = Undefined
  /\ finally(p, "error", key[p], events[p])
  /\ UNCHANGED <<registry, budget>>
  /\ UNCHANGED <<others, listVars>>

\* The prompt is declined, fails or comes back empty: `return`.
configDrive_promptDeclined(p) ==
  /\ pc[p] = "prompt"
  /\ \E r \in PromptResults : r \in {"declined", "empty"}
  /\ finally(p, "abort", key[p], events[p])
  /\ UNCHANGED <<registry, budget>>
  /\ UNCHANGED <<others, listVars>>

\* The prompt gives a label: the parent is saved, the entry is pushed and the
\* document is written.
configDrive_promptLabel(p) ==
  /\ pc[p] = "prompt"
  /\ \E r \in PromptResults :
       /\ r \notin {"declined", "empty"}
       /\ driveCfg' = [driveCfg EXCEPT ![p].forkOf.label = r]
  /\ drives' = registerFork(drives, driveCfg'[p])
  /\ writeFile(p, drives', {"push"})
  /\ settled' = NoCall
  /\ UNCHANGED <<doc, network, locks, op, url, forkOf, key, driveIndex, manifest,
                 history, budget>>
  /\ UNCHANGED <<others, listVars>>

\* ------------------------------------------------------------ writeFile

\* The root drive has written /drives.json; the call ends.
writeFile_done(p) ==
  /\ pc[p] = "write"
  /\ doc' = pending[p]
  /\ finally(p, "ok", key[p], events[p])
  /\ UNCHANGED <<drives, network, budget>>
  /\ UNCHANGED <<others, listVars>>

\* The write fails: the call throws.
writeFile_fails(p) ==
  /\ pc[p] = "write"
  /\ finally(p, "error", key[p], events[p])
  /\ UNCHANGED <<registry, budget>>
  /\ UNCHANGED <<others, listVars>>

\* ------------------------------------------------------------ removeDrive

\* `key = await fromURLToKey(url)` fails: the call throws.
removeDrive_resolveFails(p) ==
  /\ pc[p] = "resolve" /\ op[p] = "removeDrive"
  /\ fromURLToKey(url[p]) = Unresolvable
  /\ finally(p, "error", Undefined, events[p])
  /\ UNCHANGED <<registry, budget>>
  /\ UNCHANGED <<others, listVars>>

\* The -1 of findIndex is not checked: the call goes on to splice.
removeDrive_absent_noCheck(p) ==
  /\ pc[p] = "resolve" /\ op[p] = "removeDrive"
  /\ fromURLToKey(url[p]) # Unresolvable
  /\ findIndex(drives, fromURLToKey(url[p])) = 0
  /\ key' = [key EXCEPT ![p] = fromURLToKey(url[p])]
  /\ driveIndex' = [driveIndex EXCEPT ![p] = Len(drives)]
  /\ pc' = [pc EXCEPT ![p] = "load"]
  /\ settled' = NoCall
  /\ UNCHANGED <<registry, locks, op, url, forkOf, driveCfg, manifest, pending,
                 events, history, budget>>
  /\ UNCHANGED <<others, listVars>>

\* No entry has the key: `if (driveIndex === -1) return`.
removeDrive_absent(p) ==
  /\ pc[p] = "resolve" /\ op[p] = "removeDrive"
  /\ fromURLToKey(url[p]) # Unresolvable
  /\ findIndex(drives, fromURLToKey(url[p])) = 0
  /\ finally(p, "noop", fromURLToKey(url[p]), events[p])
  /\ UNCHANGED <<registry, budget>>
  /\ UNCHANGED <<others, listVars>>

\* An entry has the key: await getOrLoadDrive(url).
removeDrive_found(p) ==
  /\ pc[p] = "resolve" /\ op[p] = "removeDrive"
  /\ fromURLToKey(url[p]) # Unresolvable
  /\ findIndex(drives, fromURLToKey(url[p])) # 0
  /\ key' = [key EXCEPT ![p] = fromURLToKey(url[p])]
  /\ driveIndex' = [driveIndex EXCEPT ![p] = findIndex(drives, fromURLToKey(url[p]))]
  /\ pc' = [pc EXCEPT ![p] = "load"]
  /\ settled' = NoCall
  /\ UNCHANGED <<registry, locks, op, url, forkOf, driveCfg, manifest, pending,
                 events, history, budget>>
  /\ UNCHANGED <<others, listVars>>

\* `await getOrLoadDrive(url)` fails: the call throws.
removeDrive_loadFails(p) ==
  /\ pc[p] = "load" /\ op[p] = "removeDrive"
  /\ finally(p, "error", key[p], events[p])
  /\ UNCHANGED <<registry, budget>>
  /\ UNCHANGED <<others, listVars>>

\* The drive is loaded: it is unseeded when not writable, the entry is
\* spliced out and the document is written.
removeDrive_splice(p) ==
  /\ pc[p] = "load" /\ op[p] = "removeDrive"
  /\ network' = configureNetwork(network, key[p], FALSE)
  /\ drives' = splice(drives, driveIndex[p])
  /\ writeFile(p, drives', seedEvents(key[p]) \cup {"splice"})
  /\ settled' = NoCall
  /\ UNCHANGED <<doc, locks, op, url, forkOf, key, driveIndex, driveCfg, manifest,
                 history, budget>>
  /\ listed' = splicedOut(listed, driveIndex[p])
  /\ UNCHANGED <<others, returned>>

\* ------------------------------------------------------------ specification

Step(p) ==
  \/ \E u \in Urls, f \in ForkOfArgs : configDrive_call(p, u, f)
  \/ \E u \in Urls : removeDrive_call(p, u)
  \/ lock_resume(p)
  \/ configDrive_resolveFails(p)
  \/ configDrive_resolveNew(p)
  \/ configDrive_resolveExisting(p)
  \/ configDrive_loadFails(p)
  \/ configDrive_load(p)
  \/ configDrive_manifestUnreadable(p)
  \/ configDrive_manifestPlain(p)
  \/ configDrive_manifestFork(p)
  \/ configDrive_parentKeyFails(p)
  \/ configDrive_parentKeyLabelled(p)
  \/ configDrive_parentKeyPrompt(p)
  \/ configDrive_parentKeyNoWindow(p)
  \/ configDrive_promptDeclined(p)
  \/ configDrive_promptLabel(p)
  \/ writeFile_done(p)
  \/ writeFile_fails(p)
  \/ removeDrive_resolveFails(p)
  \/ removeDrive_absent(p)
  \/ removeDrive_found(p)
  \/ removeDrive_loadFails(p)
  \/ removeDrive_splice(p)

Next == \E p \in Procs : Step(p)

Spec == Init /\ [][Next]_vars

\* A single caller: c2 never calls.
SeqInit ==
  /\ drives = <<>>
  /\ doc = <<>>
  /\ network = InitialNetwork
  /\ lockAcquired = [n \in LockNames |-> FALSE]
  /\ lockWaiters = [n \in LockNames |-> <<>>]
  /\ granted = {}
  /\ pc = [p \in Procs |-> IF p = "c1" THEN "idle" ELSE "off"]
  /\ op = [p \in Procs |-> "none"]
  /\ url = [p \in Procs |-> "none"]
  /\ forkOf = [p \in Procs |-> NoArg]
  /\ key = [p \in Procs |-> Undefined]
  /\ driveIndex = [p \in Procs |-> 0]
  /\ driveCfg = [p \in Procs |-> NoDriveCfg]
  /\ manifest = [p \in Procs |-> NoManifest]
  /\ pending = [p \in Procs |-> <<>>]
  /\ events = [p \in Procs |-> {}]
  /\ preDrives = [p \in Procs |-> <<>>]
  /\ preDoc = [p \in Procs |-> <<>>]
  /\ preNetwork = [p \in Procs |-> InitialNetwork]
  /\ sawAdded = [p \in Procs |-> {}]
  /\ settled = NoCall
  /\ budget = MaxSeqCalls
  /\ tree = EmptyTree /\ FsIdle /\ NamesIdle /\ SetupIdle /\ ListIdle

SeqSpec == SeqInit /\ [][Next]_vars

\* Every call in progress keeps running: the event loop runs each settled
\* continuation, and every awaited collaborator (the prompt included) answers.
FairSpec == Spec /\ \A p \in Procs : WF_vars(Step(p))

\* ------------------------------------------------------------ reconcilers

\* The callers' variables in a process that makes no configDrive or
\* removeDrive call.
CallersOff ==
  /\ lockAcquired = [n \in LockNames |-> FALSE]
  /\ lockWaiters = [n \in LockNames |-> <<>>]
  /\ granted = {}
  /\ pc = [p \in Procs |-> "off"]
  /\ op = [p \in Procs |-> "none"]
  /\ url = [p \in Procs |-> "none"]
  /\ forkOf = [p \in Procs |-> NoArg]
  /\ key = [p \in Procs |-> Undefined]
  /\ driveIndex = [p \in Procs |-> 0]
  /\ driveCfg = [p \in Procs |-> NoDriveCfg]
  /\ manifest = [p \in Procs |-> NoManifest]
  /\ pending = [p \in Procs |-> <<>>]
  /\ events = [p \in Procs |-> {}]
  /\ preDrives = [p \in Procs |-> <<>>]
  /\ preDoc = [p \in Procs |-> <<>>]
  /\ preNetwork = [p \in Procs |-> InitialNetwork]
  /\ sawAdded = [p \in Procs |-> {}]
  /\ settled = NoCall
  /\ budget = 0

\* No caller and an empty registry.
CallsOff ==
  /\ drives = <<>>
  /\ doc = <<>>
  /\ network = InitialNetwork
  /\ CallersOff

\* The catch of the reconcilers: the error is logged, the call returns.
tryCatch_rethrow(res) == res

tryCatch(res) == "ok"

\* A reconciler is called: it awaits stat(path).
reconcile(p, o, pa, u) ==
  /\ rpc[p] = "idle"
  /\ fsBudget > 0
  /\ fsBudget' = fsBudget - 1
  /\ rpc' = [rpc EXCEPT ![p] = "stat"]
  /\ rop' = [rop EXCEPT ![p] = o]
  /\ rpath' = [rpath EXCEPT ![p] = pa]
  /\ rurl' = [rurl EXCEPT ![p] = u]
  /\ rbefore' = [rbefore EXCEPT ![p] = tree]
  /\ rwith' = [q \in Reconcilers |->
       IF q = p
       THEN {signature(rop[r], rpath[r], rurl[r]) :
               r \in {r \in Reconcilers \ {p} : rpc[r] \notin {"idle", "off"}}}
       ELSE IF rpc[q] \notin {"idle", "off"} THEN rwith[q] \cup {signature(o, pa, u)}
       ELSE rwith[q]]
  /\ fsSettled' = NoFsCall
  /\ UNCHANGED <<tree, rst, rkey, issued, lastCall>>
  /\ UNCHANGED <<calls, nameVars, setupVars, listVars>>

\* The reconciler returns; `log` is what it has issued.
reconciled(p, res, log) ==
  /\ fsSettled' =
       [who |-> p, op |-> rop[p], path |-> rpath[p], url |-> rurl[p], issued |-> log,
        result |-> tryCatch(res), before |-> rbefore[p], with |-> rwith[p],
        prev |-> lastCall]
  /\ lastCall' =
       [op |-> rop[p], path |-> rpath[p], url |-> rurl[p], with |-> rwith[p],
        result |-> tryCatch(res), before |-> rbefore[p], after |-> tree']
  /\ rpc' = [rpc EXCEPT ![p] = "idle"]
  /\ rop' = [rop EXCEPT ![p] = "none"]
  /\ rpath' = [rpath EXCEPT ![p] = "none"]
  /\ rurl' = [rurl EXCEPT ![p] = "none"]
  /\ rst' = [rst EXCEPT ![p] = NoEntry]
  /\ rkey' = [rkey EXCEPT ![p] = Undefined]
  /\ issued' = [issued EXCEPT ![p] = <<>>]
  /\ rbefore' = [rbefore EXCEPT ![p] = EmptyTree]
  /\ rwith' = [rwith EXCEPT ![p] = {}]
  /\ UNCHANGED fsBudget
  /\ UNCHANGED <<calls, nameVars, setupVars, listVars>>

\* The reconciler goes on to its next await.
goOn(p, at, st, k, log) ==
  /\ rpc' = [rpc EXCEPT ![p] = at]
  /\ rst' = [rst EXCEPT ![p] = st]
  /\ rkey' = [rkey EXCEPT ![p] = k]
  /\ issued' = [issued EXCEPT ![p] = log]
  /\ fsSettled' = NoFsCall
  /\ UNCHANGED <<rop, rpath, rurl, rbefore, rwith, lastCall, fsBudget>>
  /\ UNCHANGED <<calls, nameVars, setupVars, listVars>>

ensureDir_call(p, pa) == reconcile(p, "ensureDir", pa, "none")

ensureMount_call(p, pa, u) == reconcile(p, "ensureMount", pa, u)

ensureUnmount_call(p, pa) == reconcile(p, "ensureUnmount", pa, "none")

\* ensureDir: stat gave null, mkdir is issued.
ensureDir_statAbsent(p) ==
  /\ rpc[p] = "stat" /\ rop[p] = "ensureDir"
  /\ stat(rpath[p]) = NoEntry
  /\ goOn(p, "mkdir", stat(rpath[p]), rkey[p], Append(issued[p], pdaCall("mkdir", rpath[p], Undefined)))
  /\ UNCHANGED tree

\* ensureDir issues mkdir whatever stat gave.
ensureDir_statOccupied_mkdir(p) ==
  /\ rpc[p] = "stat" /\ rop[p] = "ensureDir"
  /\ stat(rpath[p]) # NoEntry
  /\ goOn(p, "mkdir", stat(rpath[p]), rkey[p], Append(issued[p], pdaCall("mkdir", rpath[p], Undefined)))
  /\ UNCHANGED tree

\* ensureDir: something is there; a non-directory is logged as a warning.
ensureDir_statOccupied(p) ==
  /\ rpc[p] = "stat" /\ rop[p] = "ensureDir"
  /\ stat(rpath[p]) # NoEntry
  /\ UNCHANGED tree
  /\ reconciled(p, "ok", issued[p])

\* rootDrive.pda.mkdir(path) on a free path.
ensureDir_mkdir(p) ==
  /\ rpc[p] = "mkdir"
  /\ tree[rpath[p]] = NoEntry
  /\ tree' = [tree EXCEPT ![rpath[p]] = Directory]
  /\ reconciled(p, "ok", issued[p])

\* rootDrive.pda.mkdir(path) on a path that was taken meanwhile: it throws.
ensureDir_mkdirFails(p) ==
  /\ rpc[p] = "mkdir"
  /\ tree[rpath[p]] # NoEntry
  /\ UNCHANGED tree
  /\ reconciled(p, "threw", issued[p])

\* ensureMount: after stat, await fromURLToKey(url, true).
ensureMount_stat(p) ==
  /\ rpc[p] = "stat" /\ rop[p] = "ensureMount"
  /\ goOn(p, "key", stat(rpath[p]), rkey[p], issued[p])
  /\ UNCHANGED tree

\* fromURLToKey throws.
ensureMount_keyFails(p) ==
  /\ rpc[p] = "key"
  /\ fromURLToKey(rurl[p]) = Unresolvable
  /\ UNCHANGED tree
  /\ reconciled(p, "threw", issued[p])

\* `!st`: mount(path, key) is issued.
ensureMount_keyAbsent(p) ==
  /\ rpc[p] = "key"
  /\ fromURLToKey(rurl[p]) # Unresolvable
  /\ rst[p] = NoEntry
  /\ goOn(p, "mount", rst[p], fromURLToKey(rurl[p]),
          Append(issued[p], pdaCall("mount", rpath[p], fromURLToKey(rurl[p]))))
  /\ UNCHANGED tree

\* `st.mount` with the same key: nothing to do.
ensureMount_keySame(p) ==
  /\ rpc[p] = "key"
  /\ fromURLToKey(rurl[p]) # Unresolvable
  /\ rst[p].kind = "mount" /\ rst[p].key = fromURLToKey(rurl[p])
  /\ UNCHANGED tree
  /\ reconciled(p, "ok", issued[p])

\* The mount is replaced without an unmount.
ensureMount_keyOther_noUnmount(p) ==
  /\ rpc[p] = "key"
  /\ fromURLToKey(rurl[p]) # Unresolvable
  /\ rst[p].kind = "mount" /\ rst[p].key # fromURLToKey(rurl[p])
  /\ goOn(p, "mount", rst[p], fromURLToKey(rurl[p]),
          Append(issued[p], pdaCall("mount", rpath[p], fromURLToKey(rurl[p]))))
  /\ UNCHANGED tree

\* `st.mount` with another key: unmount(path) is issued.
ensureMount_keyOther(p) ==
  /\ rpc[p] = "key"
  /\ fromURLToKey(rurl[p]) # Unresolvable
  /\ rst[p].kind = "mount" /\ rst[p].key # fromURLToKey(rurl[p])
  /\ goOn(p, "unmount", rst[p], fromURLToKey(rurl[p]),
          Append(issued[p], pdaCall("unmount", rpath[p], Undefined)))
  /\ UNCHANGED tree

\* What is there is replaced by the mount.
ensureMount_keyUnexpected_replace(p) ==
  /\ rpc[p] = "key"
  /\ fromURLToKey(rurl[p]) # Unresolvable
  /\ rst[p].kind \in {"dir", "file"}
  /\ goOn(p, "mount", rst[p], fromURLToKey(rurl[p]),
          Append(issued[p], pdaCall("mount", rpath[p], fromURLToKey(rurl[p]))))
  /\ UNCHANGED tree

\* Something that is no mount is there: a warning is logged.
ensureMount_keyUnexpected(p) ==
  /\ rpc[p] = "key"
  /\ fromURLToKey(rurl[p]) # Unresolvable
  /\ rst[p].kind \in {"dir", "file"}
  /\ UNCHANGED tree
  /\ reconciled(p, "ok", issued[p])

\* rootDrive.pda.unmount(path) of a mount; ensureMount goes on to mount.
ensureMount_unmount(p) ==
  /\ rpc[p] = "unmount" /\ rop[p] = "ensureMount"
  /\ tree[rpath[p]].kind = "mount"
  /\ tree' = [tree EXCEPT ![rpath[p]] = NoEntry]
  /\ goOn(p, "mount", rst[p], rkey[p], Append(issued[p], pdaCall("mount", rpath[p], rkey[p])))

\* rootDrive.pda.unmount(path) where no mount is (any more): it throws.
ensureMount_unmountFails(p) ==
  /\ rpc[p] = "unmount" /\ rop[p] = "ensureMount"
  /\ tree[rpath[p]].kind # "mount"
  /\ UNCHANGED tree
  /\ reconciled(p, "threw", issued[p])

\* rootDrive.pda.mount(path, key): the path is free, or what is there is
\* replaced.
ensureMount_mount(p) ==
  /\ rpc[p] = "mount"
  /\ tree' = [tree EXCEPT ![rpath[p]] = Mount(rkey[p])]
  /\ reconciled(p, "ok", issued[p])

\* rootDrive.pda.mount(path, key) on a path that was taken meanwhile: it
\* throws.
ensureMount_mountFails(p) ==
  /\ rpc[p] = "mount"
  /\ tree[rpath[p]] # NoEntry
  /\ UNCHANGED tree
  /\ reconciled(p, "threw", issued[p])

\* ensureUnmount: `st && st.mount`: unmount(path) is issued.
ensureUnmount_statMounted(p) ==
  /\ rpc[p] = "stat" /\ rop[p] = "ensureUnmount"
  /\ stat(rpath[p]).kind = "mount"
  /\ goOn(p, "unmount", stat(rpath[p]), rkey[p],
          Append(issued[p], pdaCall("unmount", rpath[p], Undefined)))
  /\ UNCHANGED tree

\* ensureUnmount: no mount is there: nothing to do.
ensureUnmount_statOther(p) ==
  /\ rpc[p] = "stat" /\ rop[p] = "ensureUnmount"
  /\ stat(rpath[p]).kind # "mount"
  /\ UNCHANGED tree
  /\ reconciled(p, "ok", issued[p])

\* rootDrive.pda.unmount(path) of a mount.
ensureUnmount_unmount(p) ==
  /\ rpc[p] = "unmount" /\ rop[p] = "ensureUnmount"
  /\ tree[rpath[p]].kind = "mount"
  /\ tree' = [tree EXCEPT ![rpath[p]] = NoEntry]
  /\ reconciled(p, "ok", issued[p])

\* rootDrive.pda.unmount(path) where no mount is (any more): it throws.
ensureUnmount_unmountFails(p) ==
  /\ rpc[p] = "unmount" /\ rop[p] = "ensureUnmount"
  /\ tree[rpath[p]].kind # "mount"
  /\ UNCHANGED tree
  /\ reconciled(p, "threw", issued[p])

Reconcile(p) ==
  \/ \E pa \in Paths : ensureDir_call(p, pa)
  \/ \E pa \in Paths, u \in Urls : ensureMount_call(p, pa, u)
  \/ \E pa \in Paths : ensureUnmount_call(p, pa)
  \/ ensureDir_statAbsent(p)
  \/ ensureDir_statOccupied(p)
  \/ ensureDir_mkdir(p)
  \/ ensureDir_mkdirFails(p)
  \/ ensureMount_stat(p)
  \/ ensureMount_keyFails(p)
  \/ ensureMount_keyAbsent(p)
  \/ ensureMount_keySame(p)
  \/ ensureMount_keyOther(p)
  \/ ensureMount_keyUnexpected(p)
  \/ ensureMount_unmount(p)
  \/ ensureMount_unmountFails(p)
  \/ ensureMount_mount(p)
  \/ ensureMount_mountFails(p)
  \/ ensureUnmount_statMounted(p)
  \/ ensureUnmount_statOther(p)
  \/ ensureUnmount_unmount(p)
  \/ ensureUnmount_unmountFails(p)

FsNext == \E p \in Reconcilers : Reconcile(p)

\* Two callers of the reconcilers, on any tree.
FsInit ==
  /\ CallsOff /\ NamesIdle /\ SetupIdle /\ ListIdle
  /\ tree \in [Paths -> Entries]
  /\ rpc = [p \in Reconcilers |-> "idle"]
  /\ rop = [p \in Reconcilers |-> "none"]
  /\ rpath = [p \in Reconcilers |-> "none"]
  /\ rurl = [p \in Reconcilers |-> "none"]
  /\ rst = [p \in Reconcilers |-> NoEntry]
  /\ rkey = [p \in Reconcilers |-> Undefined]
  /\ issued = [p \in Reconcilers |-> <<>>]
  /\ rbefore = [p \in Reconcilers |-> EmptyTree]
  /\ rwith = [p \in Reconcilers |-> {}]
  /\ fsSettled = NoFsCall
  /\ lastCall = NoFsCall.prev
  /\ fsBudget = MaxFsCalls

FsSpec == FsInit /\ [][FsNext]_vars

\* ------------------------------------------------------------ getAvailableName

\* The values given for ext and joiningChar.
ExtArgs == {Undefined, "", "txt"}
JoinArgs == {Undefined, "-", "_"}

\* The loop's bound (1e9 in the code).
NameLimit == MaxSuffix + 1

\* The default parameter value: joiningChar = '-'.
joiningChar(j) == IF j = Undefined THEN "-" ELSE j

\* `ext ? '.' + ext : ''`
extension(e) == IF e \in {Undefined, ""} THEN Absent ELSE e

\* Every candidate carries its number, the first included.
candidateName_suffixOne(i, e, j) == Name(joiningChar(j), i, extension(e))

\* The candidate of iteration i: the bare basename for i = 1, else basename,
\* joiningChar and i; then the extension.
candidateName(i, e, j) ==
  IF i = 1 THEN Name(Absent, 0, extension(e)) ELSE Name(joiningChar(j), i, extension(e))

\* The iteration that produces a name.
iteration(nm) == IF nm.n = 0 THEN 1 ELSE nm.n

\* getAvailableName(containingPath, basename, ext, joiningChar) is called and
\* awaits the stat of its first candidate.
getAvailableName_call(e, j) ==
  /\ gpc = "idle"
  /\ gpc' = "stat"
  /\ gargs' = [ext |-> e, joiningChar |-> j]
  /\ gi' = 1
  /\ UNCHANGED <<names, gresult>>
  /\ UNCHANGED <<calls, fsVars, setupVars, listVars>>

\* stat gives null: the candidate is returned.
getAvailableName_free ==
  /\ gpc = "stat"
  /\ candidateName(gi, gargs.ext, gargs.joiningChar) \notin names
  /\ gresult' = [kind |-> "returned", name |-> candidateName(gi, gargs.ext, gargs.joiningChar)]
  /\ gpc' = "done"
  /\ UNCHANGED <<names, gargs, gi>>
  /\ UNCHANGED <<calls, fsVars, setupVars, listVars>>

\* The candidate exists: the next one is tried.
getAvailableName_taken ==
  /\ gpc = "stat"
  /\ candidateName(gi, gargs.ext, gargs.joiningChar) \in names
  /\ gi + 1 < NameLimit
  /\ gi' = gi + 1
  /\ UNCHANGED <<names, gpc, gargs, gresult>>
  /\ UNCHANGED <<calls, fsVars, setupVars, listVars>>

\* The loop runs out: the call throws.
getAvailableName_exhausted ==
  /\ gpc = "stat"
  /\ candidateName(gi, gargs.ext, gargs.joiningChar) \in names
  /\ gi + 1 >= NameLimit
  /\ gresult' = [kind |-> "threw", name |-> Name(Absent, 0, Absent)]
  /\ gpc' = "done"
  /\ UNCHANGED <<names, gargs, gi>>
  /\ UNCHANGED <<calls, fsVars, setupVars, listVars>>

NameNext ==
  \/ \E e \in ExtArgs, j \in JoinArgs : getAvailableName_call(e, j)
  \/ getAvailableName_free
  \/ getAvailableName_taken
  \/ getAvailableName_exhausted

\* One call, on a directory holding any set of names.
NameInit ==
  /\ CallsOff /\ tree = EmptyTree /\ FsIdle /\ SetupIdle /\ ListIdle
  /\ names \in SUBSET AllNames
  /\ gpc = "idle"
  /\ gargs = NoNameArgs
  /\ gi = 0
  /\ gresult = [kind |-> "none", name |-> Name(Absent, 0, Absent)]

NameSpec == NameInit /\ [][NameNext]_vars

\* ------------------------------------------------------------ setup

\* `if (isInitialCreation)` is not asked.
seedsDefaults_always(flag) == TRUE

\* `if (isInitialCreation)`: the default bookmarks are added.
seedsDefaults(flag) == flag

\* setup() leaves by an exception or by its end.
setupEnds(res) ==
  /\ setupSettled' = [result |-> res, read |-> setupLog.read, urlBefore |-> setupLog.urlBefore]
  /\ setupLog' = NoSetupLog
  /\ isInitialCreation' = FALSE
  /\ spc' = "idle"

\* setup() is called: trash.setup(), then it awaits the profile record.
setup_call ==
  /\ spc = "idle"
  /\ setupBudget > 0
  /\ setupBudget' = setupBudget - 1
  /\ spc' = "profile"
  /\ isInitialCreation' = FALSE
  /\ setupLog' = [read |-> FALSE, urlBefore |-> profileUrl]
  /\ setupSettled' = NoSetup
  /\ UNCHANGED <<profileUrl, rootDrives, bookmarksAdded, browsingProfile, docText, drivesIsArray>>
  /\ UNCHANGED <<calls, fsVars, nameVars, listVars>>

\* db.get rejects: setup() throws.
setup_profileFails ==
  /\ spc = "profile"
  /\ setupEnds("threw")
  /\ UNCHANGED <<profileUrl, rootDrives, bookmarksAdded, browsingProfile, docText,
                 drivesIsArray, setupBudget>>
  /\ UNCHANGED <<calls, fsVars, nameVars, listVars>>

\* The record has a url: the root drive is loaded next.
setup_profileHasUrl ==
  /\ spc = "profile"
  /\ profileUrl # NoUrl
  /\ browsingProfile' = profileUrl
  /\ spc' = "load"
  /\ UNCHANGED <<profileUrl, rootDrives, bookmarksAdded, isInitialCreation, docText,
                 drivesIsArray, setupSettled, setupLog, setupBudget>>
  /\ UNCHANGED <<calls, fsVars, nameVars, listVars>>

\* The record has no url: await createNewRootDrive().
setup_profileNoUrl ==
  /\ spc = "profile"
  /\ profileUrl = NoUrl
  /\ browsingProfile' = NoUrl
  /\ spc' = "create"
  /\ UNCHANGED <<profileUrl, rootDrives, bookmarksAdded, isInitialCreation, docText,
                 drivesIsArray, setupSettled, setupLog, setupBudget>>
  /\ UNCHANGED <<calls, fsVars, nameVars, listVars>>

\* createNewRootDrive() rejects: setup() throws.
setup_createFails ==
  /\ spc = "create"
  /\ setupEnds("threw")
  /\ UNCHANGED <<profileUrl, rootDrives, bookmarksAdded, browsingProfile, docText,
                 drivesIsArray, setupBudget>>
  /\ UNCHANGED <<calls, fsVars, nameVars, listVars>>

\* The root drive is created: await the UPDATE of the profile record.
setup_create ==
  /\ spc = "create"
  /\ rootDrives' = rootDrives + 1
  /\ spc' = "update"
  /\ UNCHANGED <<profileUrl, bookmarksAdded, browsingProfile, isInitialCreation, docText,
                 drivesIsArray, setupSettled, setupLog, setupBudget>>
  /\ UNCHANGED <<calls, fsVars, nameVars, listVars>>

\* The UPDATE rejects: setup() throws.
setup_updateFails ==
  /\ spc = "update"
  /\ setupEnds("threw")
  /\ UNCHANGED <<profileUrl, rootDrives, bookmarksAdded, browsingProfile, docText,
                 drivesIsArray, setupBudget>>
  /\ UNCHANGED <<calls, fsVars, nameVars, listVars>>

\* The url is stored; isInitialCreation = true.
setup_update ==
  /\ spc = "update"
  /\ profileUrl' = RootUrl(rootDrives)
  /\ browsingProfile' = RootUrl(rootDrives)
  /\ isInitialCreation' = TRUE
  /\ spc' = "load"
  /\ UNCHANGED <<rootDrives, bookmarksAdded, docText, drivesIsArray, setupSettled, setupLog,
                 setupBudget>>
  /\ UNCHANGED <<calls, fsVars, nameVars, listVars>>

\* getOrLoadDrive(browsingProfile.url) rejects: setup() throws.
setup_loadFails ==
  /\ spc = "load"
  /\ setupEnds("threw")
  /\ UNCHANGED <<profileUrl, rootDrives, bookmarksAdded, browsingProfile, docText,
                 drivesIsArray, setupBudget>>
  /\ UNCHANGED <<calls, fsVars, nameVars, listVars>>

\* The root drive is loaded: await ensureDir(PATHS.BOOKMARKS).
setup_load ==
  /\ spc = "load"
  /\ spc' = "ensureDir"
  /\ UNCHANGED <<profileUrl, rootDrives, bookmarksAdded, browsingProfile, isInitialCreation,
                 docText, drivesIsArray, setupSettled, setupLog, setupBudget>>
  /\ UNCHANGED <<calls, fsVars, nameVars, listVars>>

\* ensureDir(PATHS.BOOKMARKS) has run (it never throws); then the default
\* bookmarks are added on the initial creation, else the document is read.
setup_ensureDir ==
  /\ spc = "ensureDir"
  /\ tree' = [tree EXCEPT !["/bookmarks"] = IF @ = NoEntry THEN Directory ELSE @]
  /\ spc' = IF seedsDefaults(isInitialCreation) THEN "bookmark1" ELSE "read"
  /\ UNCHANGED <<profileUrl, rootDrives, bookmarksAdded, browsingProfile, isInitialCreation,
                 docText, drivesIsArray, setupSettled, setupLog, setupBudget>>
  /\ UNCHANGED <<rpc, rop, rpath, rurl, rst, rkey, issued, rbefore, fsSettled, lastCall,
                 rwith, fsBudget>>
  /\ UNCHANGED <<calls, nameVars, listVars>>

\* bookmarks.add of the documentation bookmark.
setup_bookmarkDocs ==
  /\ spc = "bookmark1"
  /\ bookmarksAdded' = [bookmarksAdded EXCEPT !["docs"] = @ + 1]
  /\ spc' = "bookmark2"
  /\ UNCHANGED <<profileUrl, rootDrives, browsingProfile, isInitialCreation, docText,
                 drivesIsArray, setupSettled, setupLog, setupBudget>>
  /\ UNCHANGED <<calls, fsVars, nameVars, listVars>>

\* bookmarks.add of the community bookmark.
setup_bookmarkReddit ==
  /\ spc = "bookmark2"
  /\ bookmarksAdded' = [bookmarksAdded EXCEPT !["reddit"] = @ + 1]
  /\ spc' = "read"
  /\ UNCHANGED <<profileUrl, rootDrives, browsingProfile, isInitialCreation, docText,
                 drivesIsArray, setupSettled, setupLog, setupBudget>>
  /\ UNCHANGED <<calls, fsVars, nameVars, listVars>>

\* bookmarks.add rejects: the catch logs it and the document is read.
setup_bookmarkFails ==
  /\ spc \in {"bookmark1", "bookmark2"}
  /\ spc' = "read"
  /\ UNCHANGED <<profileUrl, rootDrives, bookmarksAdded, browsingProfile, isInitialCreation,
                 docText, drivesIsArray, setupSettled, setupLog, setupBudget>>
  /\ UNCHANGED <<calls, fsVars, nameVars, listVars>>

\* readFile rejects or JSON.parse throws: the catch logs it, `drives` is not
\* assigned.
setup_readFails ==
  /\ spc = "read"
  /\ docText \in {"missing", "unreadable", "invalid"}
  /\ setupLog' = [setupLog EXCEPT !.read = TRUE]
  /\ setupSettled' = [result |-> "ok", read |-> TRUE, urlBefore |-> setupLog.urlBefore]
  /\ isInitialCreation' = FALSE
  /\ spc' = "idle"
  /\ UNCHANGED <<profileUrl, rootDrives, bookmarksAdded, browsingProfile, docText,
                 drivesIsArray, setupBudget>>
  /\ UNCHANGED <<calls, fsVars, nameVars, listVars>>

\* The text parses to an object without a drives list: `drives` is assigned
\* its `.drives`, which is undefined.
setup_readNoList ==
  /\ spc = "read"
  /\ docText = "nolist"
  /\ drivesIsArray' = FALSE
  /\ drives' = <<>>
  /\ setupLog' = [setupLog EXCEPT !.read = TRUE]
  /\ setupSettled' = [result |-> "ok", read |-> TRUE, urlBefore |-> setupLog.urlBefore]
  /\ isInitialCreation' = FALSE
  /\ spc' = "idle"
  /\ UNCHANGED <<profileUrl, rootDrives, bookmarksAdded, browsingProfile, docText, setupBudget>>
  /\ UNCHANGED <<doc, network, lockAcquired, lockWaiters, granted, pc, op, url, forkOf, key,
                 driveIndex, driveCfg, manifest, pending, events, preDrives, preDoc,
                 preNetwork, sawAdded, settled, budget>>
  /\ UNCHANGED <<fsVars, nameVars, listVars>>

\* The text parses to an object with a drives list: `drives` is that list.
setup_readList ==
  /\ spc = "read"
  /\ docText = "list"
  /\ drivesIsArray' = TRUE
  /\ drives' = doc
  /\ setupLog' = [setupLog EXCEPT !.read = TRUE]
  /\ setupSettled' = [result |-> "ok", read |-> TRUE, urlBefore |-> setupLog.urlBefore]
  /\ isInitialCreation' = FALSE
  /\ spc' = "idle"
  /\ UNCHANGED <<profileUrl, rootDrives, bookmarksAdded, browsingProfile, docText, setupBudget>>
  /\ UNCHANGED <<doc, network, lockAcquired, lockWaiters, granted, pc, op, url, forkOf, key,
                 driveIndex, driveCfg, manifest, pending, events, preDrives, preDoc,
                 preNetwork, sawAdded, settled, budget>>
  /\ UNCHANGED <<fsVars, nameVars, listVars>>

\* The process ends and a new one starts: the module globals are fresh, the
\* profile record, the drives and the bookmarks stay.
restart ==
  /\ setupBudget > 0
  /\ setupBudget' = setupBudget - 1
  /\ spc' = "idle"
  /\ browsingProfile' = NoUrl
  /\ isInitialCreation' = FALSE
  /\ drives' = <<>>
  /\ drivesIsArray' = TRUE
  /\ setupLog' = NoSetupLog
  /\ setupSettled' = NoSetup
  /\ UNCHANGED <<profileUrl, rootDrives, bookmarksAdded, docText>>
  /\ UNCHANGED <<doc, network, lockAcquired, lockWaiters, granted, pc, op, url, forkOf, key,
                 driveIndex, driveCfg, manifest, pending, events, preDrives, preDoc,
                 preNetwork, sawAdded, settled, budget>>
  /\ UNCHANGED <<fsVars, nameVars, listVars>>

SetupNext ==
  \/ setup_call
  \/ setup_profileFails
  \/ setup_profileHasUrl
  \/ setup_profileNoUrl
  \/ setup_createFails
  \/ setup_create
  \/ setup_updateFails
  \/ setup_update
  \/ setup_loadFails
  \/ setup_load
  \/ setup_ensureDir
  \/ setup_bookmarkDocs
  \/ setup_bookmarkReddit
  \/ setup_bookmarkFails
  \/ setup_readFails
  \/ setup_readNoList
  \/ setup_readList
  \/ restart

\* The drive lists a well-formed document may hold.
DocLists ==
  {<<>>,
   stringify(<<newDriveCfg("a", NoArg)>>),
   stringify(<<newDriveCfg("b", NoArg), newDriveCfg("a", [kind |-> "object", key |-> "b", label |-> "dev"])>>)}

\* A fresh profile or one with a root drive, any document, no setup() yet.
SetupInit ==
  /\ CallersOff /\ FsIdle /\ NamesIdle /\ ListIdle
  /\ drives = <<>>
  /\ network = InitialNetwork
  /\ docText \in DocTexts
  /\ doc \in (IF docText = "list" THEN DocLists ELSE {<<>>})
  /\ tree \in {EmptyTree, [EmptyTree EXCEPT !["/bookmarks"] = Directory],
               [EmptyTree EXCEPT !["/bookmarks"] = File]}
  /\ \E n \in {0, 1} :
       /\ profileUrl = (IF n = 0 THEN NoUrl ELSE RootUrl(1))
       /\ rootDrives = n
       /\ bookmarksAdded = [b \in DefaultBookmarks |-> n]
  /\ spc = "idle"
  /\ browsingProfile = NoUrl
  /\ isInitialCreation = FALSE
  /\ drivesIsArray = TRUE
  /\ setupSettled = NoSetup
  /\ setupLog = NoSetupLog
  /\ setupBudget = MaxSetups

SetupSpec == SetupInit /\ [][SetupNext]_vars

\* ------------------------------------------------------------ listDrives

\* The entry listDrives puts first with includeSystem: {key: <root key>}.
systemEntry == [key |-> "root", forkOf |-> NoFork]

\* drives.slice(), with the system entry unshifted when asked for.
slice(ds, includeSystem) ==
  (IF includeSystem THEN <<held(systemEntry, 0)>> ELSE <<>>)
    \o [i \in 1..Len(ds) |-> held(ds[i], i)]

\* What a caller reads in a list it holds.
contents(l) == [j \in 1..Len(l) |-> l[j].cfg]

\* listDrives({includeSystem}): synchronous, so it runs between any two steps
\* of the calls in progress.
listDrives(includeSystem) ==
  /\ drivesIsArray
  /\ Len(listed) < MaxLists
  /\ listed' = Append(listed, slice(drives, includeSystem))
  /\ returned' = Append(returned, contents(slice(drives, includeSystem)))
  /\ UNCHANGED <<calls, others>>

ListNext ==
  \/ Next
  \/ \E includeSystem \in BOOLEAN : listDrives(includeSystem)

\* One caller of configDrive/removeDrive and a caller of listDrives.
ListSpec == SeqInit /\ [][ListNext]_vars

\* ------------------------------------------------------------ properties

RegistryLock == "filesystem:drives"

\* The call is between reading the registry and the end of its write.
ReadModifyWrite(p) == pc[p] \in {"resolve", "load", "manifest", "parentKey", "prompt", "write"}

\* The call holds the lock: its lock promise is resolved, or it is running.
InCriticalSection(p) == p \in granted \/ ReadModifyWrite(p)

\* The call that just settled is a configDrive that registered a new drive
\* and completed.
AddedOk == settled.op = "configDrive" /\ settled.result = "ok" /\ "push" \in settled.events

\* C1: two concurrent configDrive calls for different unregistered URLs never
\* are both inside their read-modify-write of the registry, and when the second
\* of them completes the document it wrote lists its own key and the keys added
\* by the calls that completed while it was in progress.
C1_NoLostUpdate ==
  /\ \A p \in Procs : \A q \in Procs \ {p} : ~(ReadModifyWrite(p) /\ ReadModifyWrite(q))
  /\ AddedOk => (settled.sawAdded \cup {settled.key}) \subseteq docKeys(doc)

C1_Witness ==
  AddedOk /\ \E k \in settled.sawAdded : k # settled.key

\* C2: the lock is held for the whole of a call, the prompt included; no two
\* calls hold it at once; it is free again when no call holds it (whichever way
\* the calls ended); and a caller waiting for it eventually gets it.
C2_LockHeld ==
  /\ \A p \in Procs : InCriticalSection(p) => lockAcquired[RegistryLock]
  /\ \A p \in Procs : \A q \in Procs \ {p} : ~(InCriticalSection(p) /\ InCriticalSection(q))
  /\ (\A p \in Procs : ~InCriticalSection(p))
       => (~lockAcquired[RegistryLock] /\ lockWaiters[RegistryLock] = <<>>)

C2_LockDiscipline ==
  /\ []C2_LockHeld
  /\ \A p \in Procs : (pc[p] = "lock") ~> (pc[p] = "resolve")

\* A call was aborted at the prompt and the caller that waited for it is
\* handed the lock.
C2_Witness ==
  /\ settled.result = "abort"
  /\ \E q \in Procs \ {settled.who} : q \in granted /\ pc[q] = "lock"

\* C3: when the fork-label prompt is declined, fails or comes back empty, the
\* call ends with the registry list and the document as they were when the call
\* got the lock, and without an entry for the drive.
C3_AbortLeavesNoTrace ==
  [][\A p \in Procs :
       (pc[p] = "prompt" /\ settled'.who = p /\ settled'.result = "abort")
         => /\ drives' = preDrives[p]
            /\ doc' = preDoc[p]
            /\ findIndex(drives', key[p]) = 0]_vars

C3_Witness ==
  settled.result = "abort" /\ "prompt" \in settled.events /\ drives # <<>>

\* C4: after a configDrive call that completed and left the drive's entry with
\* a forkOf, getDriveConfig(forkOf.key) finds an entry.
C4_ForkParentPresent ==
  (settled.op = "configDrive" /\ settled.result = "ok")
    => \A i \in 1..Len(drives) :
         (drives[i].key = settled.key /\ drives[i].forkOf # NoFork)
           => getDriveConfig(drives[i].forkOf.key) # 0

\* C5: every entry with a forkOf names, in forkOf.key, the key of an entry of
\* the registry.
C5_ForkOfKeyRegistered ==
  \A i \in 1..Len(drives) :
    drives[i].forkOf # NoFork => getDriveConfig(drives[i].forkOf.key) # 0

\* C6: no two entries of the registry have the same key.
C6_UniqueKeys ==
  \A i \in 1..Len(drives) : \A j \in 1..Len(drives) :
    drives[i].key = drives[j].key => i = j

\* C7: a configDrive call whose readManifest failed completes without error,
\* with an entry for the key in the registry and in the document.
C7_UnreadableManifestTolerated ==
  "readManifestFailed" \in settled.events
    => /\ settled.result = "ok"
       /\ getDriveConfig(settled.key) # 0
       /\ settled.key \in docKeys(doc)

\* C8: when a new drive is added with a caller forkOf {key, label} and a
\* manifest that declares a fork parent, the pushed entry has the key resolved
\* from the manifest and the caller's label, and no prompt was opened; a prompt
\* is opened only when the caller gave no label.
C8_ManifestKeyCallerLabel ==
  \A p \in Procs :
    /\ (/\ pc[p] = "write" /\ op[p] = "configDrive" /\ "push" \in events[p]
        /\ forkOf[p].kind = "object" /\ forkOf[p].label # Undefined
        /\ declaresFork(manifest[p]))
         => /\ drives[Len(drives)].key = key[p]
            /\ drives[Len(drives)].forkOf.key = fromURLToKey(manifest[p].forkOf)
            /\ drives[Len(drives)].forkOf.label = forkOf[p].label
            /\ "prompt" \notin events[p]
    /\ "prompt" \in events[p]
         => (forkOf[p].kind # "object" \/ forkOf[p].label = Undefined)

C8_Witness ==
  \E p \in Procs :
    /\ pc[p] = "write" /\ op[p] = "configDrive" /\ "push" \in events[p]
    /\ forkOf[p].kind = "object" /\ forkOf[p].label # Undefined
    /\ declaresFork(manifest[p])
    /\ forkOf[p].key # fromURLToKey(manifest[p].forkOf)

\* C9: removeDrive of a URL whose key is not in the registry ends as a no-op:
\* no error, the list, the network settings and the document as they were when
\* the call got the lock, no writeFile and no configureNetwork call, and the
\* lock released (free, or handed to the caller that waited).
C9_RemoveAbsentIsNoop ==
  [][\A p \in Procs :
       (/\ pc[p] = "resolve" /\ op[p] = "removeDrive" /\ pc'[p] # "resolve"
        /\ fromURLToKey(url[p]) # Unresolvable
        /\ findIndex(drives, fromURLToKey(url[p])) = 0)
         => /\ settled'.who = p /\ settled'.result = "noop"
            /\ drives' = preDrives[p]
            /\ network' = preNetwork[p]
            /\ doc' = preDoc[p]
            /\ settled'.events \cap {"write", "configureNetwork", "splice"} = {}
            /\ (lockAcquired'[RegistryLock] => granted' # {})]_vars

C9_Witness ==
  settled.op = "removeDrive" /\ settled.result = "noop" /\ drives # <<>>

\* C10: after removeDrive(url) completed, getDriveConfig(key) finds nothing and
\* the document does not list the key; after a configDrive(url) that completed,
\* the key is in the registry and in the document.
C10_RemoveThenReadd ==
  /\ (settled.op = "removeDrive" /\ settled.result = "ok")
       => (getDriveConfig(settled.key) = 0 /\ settled.key \notin docKeys(doc))
  /\ (settled.op = "configDrive" /\ settled.result = "ok")
       => (getDriveConfig(settled.key) # 0 /\ settled.key \in docKeys(doc))

\* C18: whenever no configDrive/removeDrive call holds the registry lock, the
\* drive list of /drives.json equals the in-memory list, in the same order,
\* also after calls that ended with an error.
C18_DocMatchesRegistry ==
  ~lockAcquired[RegistryLock] => doc = stringify(drives)

\* C20: when no call is in progress, every non-writable drive that is announced
\* has an entry in the registry (so a configDrive call that aborted or failed
\* has left the announce setting as it was).
C20_SeededIsRegistered ==
  (\A p \in Procs : pc[p] \in {"idle", "off"})
    => \A k \in Keys : (~writable[k] /\ network[k].announce) => getDriveConfig(k) # 0

\* The reconciler call that just ended overlapped with no other call.
Alone(c) == c.with = {}

\* The call that just ended has the arguments of the call that ended before it.
Repeated ==
  /\ fsSettled.who # "none"
  /\ signature(fsSettled.op, fsSettled.path, fsSettled.url)
       = signature(fsSettled.prev.op, fsSettled.prev.path, fsSettled.prev.url)

\* C11: a reconciler call that follows a call with the same arguments, both
\* run one after the other, issues no mkdir, mount or unmount and leaves the
\* tree as the first call left it.
C11_Idempotent ==
  (Repeated /\ Alone(fsSettled) /\ Alone(fsSettled.prev))
    => /\ fsSettled.issued = <<>>
       /\ tree = fsSettled.prev.after

\* The first of the two calls changed the tree.
C11_Witness ==
  /\ Repeated /\ Alone(fsSettled) /\ Alone(fsSettled.prev)
  /\ fsSettled.prev.before # fsSettled.prev.after

\* ensureMount(P, url) has just ended, run alone, with url resolving to a key
\* and P a mount when it started.
OnMount ==
  /\ fsSettled.op = "ensureMount" /\ Alone(fsSettled)
  /\ fromURLToKey(fsSettled.url) # Unresolvable
  /\ fsSettled.before[fsSettled.path].kind = "mount"

\* C12: ensureMount(P, url) on a mount at key A, with url resolving to B: when
\* B # A it issues unmount(P) then mount(P, B), nothing else, and P ends
\* mounted at B; when B = A it issues nothing.
C12_MountReplaced ==
  OnMount =>
    /\ tree[fsSettled.path] = Mount(fromURLToKey(fsSettled.url))
    /\ fsSettled.issued =
         IF fsSettled.before[fsSettled.path].key # fromURLToKey(fsSettled.url)
         THEN <<pdaCall("unmount", fsSettled.path, Undefined),
                pdaCall("mount", fsSettled.path, fromURLToKey(fsSettled.url))>>
         ELSE <<>>

C12_Witness ==
  OnMount /\ fsSettled.before[fsSettled.path].key # fromURLToKey(fsSettled.url)

\* The path held something the reconciler does not expect when the call
\* started: for ensureDir a file or a mount, for ensureMount a file or a
\* directory.
Unexpected ==
  /\ Alone(fsSettled)
  /\ \/ /\ fsSettled.op = "ensureDir"
        /\ fsSettled.before[fsSettled.path].kind \in {"file", "mount"}
     \/ /\ fsSettled.op = "ensureMount"
        /\ fromURLToKey(fsSettled.url) # Unresolvable
        /\ fsSettled.before[fsSettled.path].kind \in {"file", "dir"}

\* C13: on a path occupied by an unexpected entity, ensureDir and ensureMount
\* issue no call, leave the tree as it was and return without an exception.
C13_NoCorrectiveAction ==
  Unexpected =>
    /\ fsSettled.issued = <<>>
    /\ tree = fsSettled.before
    /\ fsSettled.result = "ok"

C13_Witness ==
  Unexpected /\ fsSettled.op = "ensureMount" /\ fsSettled.before[fsSettled.path] = File

\* Two calls with the same arguments overlapped, no other call overlapped
\* with either, and both have ended.
Raced ==
  /\ Repeated
  /\ \A q \in Reconcilers : rpc[q] = "idle"
  /\ fsSettled.with = {signature(fsSettled.op, fsSettled.path, fsSettled.url)}
  /\ fsSettled.prev.with = fsSettled.with

\* C17: after two overlapping ensureMount(P, url) calls, from P absent or a
\* mount, P is mounted at url's key; after two overlapping ensureDir(P) calls
\* from P absent, P is a directory; no exception has reached a caller.
C17_SafeToRace ==
  /\ (/\ Raced /\ fsSettled.op = "ensureMount"
      /\ fromURLToKey(fsSettled.url) # Unresolvable
      /\ fsSettled.before[fsSettled.path].kind \in {"absent", "mount"}
      /\ fsSettled.prev.before[fsSettled.path].kind \in {"absent", "mount"})
       => /\ tree[fsSettled.path] = Mount(fromURLToKey(fsSettled.url))
          /\ fsSettled.result = "ok" /\ fsSettled.prev.result = "ok"
  /\ (/\ Raced /\ fsSettled.op = "ensureDir"
      /\ fsSettled.before[fsSettled.path].kind \in {"absent", "dir"}
      /\ fsSettled.prev.before[fsSettled.path].kind \in {"absent", "dir"}
      /\ NoEntry \in {fsSettled.before[fsSettled.path], fsSettled.prev.before[fsSettled.path]})
       => /\ tree[fsSettled.path] = Directory
          /\ fsSettled.result = "ok" /\ fsSettled.prev.result = "ok"

\* Both calls started on a mount at another key.
C17_Witness ==
  /\ Raced /\ fsSettled.op = "ensureMount"
  /\ fromURLToKey(fsSettled.url) # Unresolvable
  /\ fsSettled.before[fsSettled.path].kind = "mount"
  /\ fsSettled.before[fsSettled.path].key # fromURLToKey(fsSettled.url)
  /\ fsSettled.prev.before[fsSettled.path] = fsSettled.before[fsSettled.path]

\* C14: the name getAvailableName returns does not exist, is the candidate of
\* its iteration (the bare basename, or basename, joiningChar and a number from
\* 2 on, with the extension when one is given), never has the number 1, and
\* every earlier candidate exists.
C14_FirstAvailableName ==
  gresult.kind = "returned" =>
    /\ gresult.name \notin names
    /\ gresult.name.n # 1
    /\ gresult.name.ext = extension(gargs.ext)
    /\ gresult.name.n # 0 => gresult.name.join = joiningChar(gargs.joiningChar)
    /\ \A i \in 1..(iteration(gresult.name) - 1) :
         /\ candidateName(i, gargs.ext, gargs.joiningChar) \in names
         /\ candidateName(i, gargs.ext, gargs.joiningChar).n = (IF i = 1 THEN 0 ELSE i)

\* report, report-2 and report-3 exist, report-1 does not: report-4 is returned.
C14_Witness ==
  /\ gresult.kind = "returned"
  /\ gresult.name = Name("-", 4, Absent)
  /\ {Name(Absent, 0, Absent), Name("-", 2, Absent), Name("-", 3, Absent)} \subseteq names
  /\ Name("-", 1, Absent) \notin names

\* C15: after a setup() that got as far as reading /drives.json, when the
\* document is missing, unreadable, not valid JSON or without a drives list,
\* `drives` is an empty list and setup() has not failed.
C15_MalformedDocIsEmptyRegistry ==
  (setupSettled.read /\ docText # "list")
    => /\ setupSettled.result = "ok"
       /\ drivesIsArray
       /\ drives = <<>>

\* C16: once the profile record holds a url, no step of a setup() call
\* changes it or creates a root drive; default bookmarks are added only by the
\* call that stored the url, and so each at most once.
C16_SeededOnce ==
  /\ [][profileUrl # NoUrl
          => /\ profileUrl' = profileUrl
             /\ rootDrives' = rootDrives
             /\ (bookmarksAdded' # bookmarksAdded => isInitialCreation)]_vars
  /\ [](\A b \in DefaultBookmarks : bookmarksAdded[b] <= 1)

\* A setup() call ended that found the url stored and the bookmarks added.
C16_Witness ==
  /\ setupSettled.result = "ok"
  /\ setupSettled.urlBefore # NoUrl
  /\ \A b \in DefaultBookmarks : bookmarksAdded[b] = 1

\* C19: a list returned by listDrives() keeps the length, the order and the
\* key/forkOf content it had when it was returned.
C19_ListIsSnapshot ==
  \A s \in 1..Len(listed) : contents(listed[s]) = returned[s]

====
